---------------------------- MODULE Spec2Model ----------------------------
(***************************************************************************)
(* Model of the Google Sheets campaign updater (src/app.py).               *)
(*                                                                         *)
(* Strings are sequences of characters so that str.strip() can be          *)
(* computed.  A character is a one-character string; a character that has *)
(* no TLA+ string literal is written as its code point, "U+00A0".          *)
(* A worksheet grid is a sequence of rows, a row a sequence                *)
(* of cells.  TLA+ sequences are 1-based: the 0-based Python position p is *)
(* element p + 1, and the 1-based sheet row/column n is element n.         *)
(***************************************************************************)
EXTENDS Integers, Sequences, FiniteSets, TLC

VARIABLES
    sheet,            \* the remote worksheet (what get_all_values would return)
    settings_data,    \* records of the "AhmedSettings" sheet, first field 'Camp'
    summary,          \* connects_target_df: one row per campaign, sorted by Camp
    update_type,      \* "CTC" or "Log type"
    day_index,        \* selected day - 1
    pc,               \* position in main / in the function call
    data,             \* the in-memory snapshot of the worksheet
    target_columns,   \* label -> 1-based column or None
    idx,              \* 1-based position of the current summary row
    camp_row_index,   \* destination row of the current summary row
    step,             \* which update_cell call of the current row is next
    events,           \* update_cell calls and st.* messages, in program order
    run,              \* 1 for the first click on Execute, 2 for the second
    first,            \* the events of the first run, once it has ended
    call,             \* arguments of the function under test (pure-function specs)
    ret,              \* its result
    credentials_json  \* os.getenv("GOOGLE_CREDENTIALS_JSON")

vars == <<sheet, settings_data, summary, update_type, day_index, pc, data,
          target_columns, idx, camp_row_index, step, events, run, first,
          call, ret, credentials_json>>

-----------------------------------------------------------------------------
(* Bounds of the model *)

MaxHeaderLen == 4
MaxIndex == 2
MaxAliasRows == 2
MaxDataRows == 2
MaxSummary == 2

-----------------------------------------------------------------------------
(* Values *)

\* Python's None for an int-or-None result; every real row/column is >= 1.
None == 0

Blank == <<>>
Calls == <<"C","a","l","l","s">>
CTC == <<"C","T","C">>
Abandoned == <<"A","b","a","n","d","o","n","e","d">>
Connects == <<"C","o","n","n","e","c","t","s">>
LoggedCalls == <<"L","o","g","g","e","d"," ","C","a","l","l","s">>
DialTime == <<"D","i","a","l"," ","T","i","m","e">>

\* a null cell of a DataFrame (never produced by get_all_records)
NaN == <<"NaN">>

\* The characters str.strip() removes: the 29 characters c of Unicode with
\* c.isspace(), i.e. U+0009-U+000D, U+001C-U+001F, U+0020, U+0085, U+00A0,
\* U+1680, U+2000-U+200A, U+2028, U+2029, U+202F, U+205F and U+3000.
Whitespace ==
    {"\t", "\n", "U+000B", "\f", "\r",
     "U+001C", "U+001D", "U+001E", "U+001F",
     " ", "U+0085", "U+00A0", "U+1680",
     "U+2000", "U+2001", "U+2002", "U+2003", "U+2004", "U+2005", "U+2006",
     "U+2007", "U+2008", "U+2009", "U+200A",
     "U+2028", "U+2029", "U+202F", "U+205F", "U+3000"}

Pad(s) == <<" ">> \o s \o <<" ">>

\* padding other than spaces: a no-break space and a tab before, a form feed after
PadWide(s) == <<"U+00A0", "\t">> \o s \o <<"\f">>

RECURSIVE lstrip(_)
lstrip(s) ==
    IF s = <<>> THEN s
    ELSE IF Head(s) \in Whitespace THEN lstrip(Tail(s)) ELSE s

RECURSIVE rstrip(_)
rstrip(s) ==
    IF s = <<>> THEN s
    ELSE IF s[Len(s)] \in Whitespace THEN rstrip(SubSeq(s, 1, Len(s) - 1)) ELSE s

strip(s) == rstrip(lstrip(s))

Min(S) == CHOOSE x \in S : \A y \in S : x <= y

-----------------------------------------------------------------------------
(* get_column_index *)

\* [i for i, cell in enumerate(header_row) if cell.strip() == label], i 0-based
RECURSIVE occurrences_from(_, _, _)
occurrences_from(label, header_row, p) ==
    IF p > Len(header_row) THEN <<>>
    ELSE (IF strip(header_row[p]) = label THEN <<p - 1>> ELSE <<>>)
         \o occurrences_from(label, header_row, p + 1)

occurrences(label, header_row) == occurrences_from(label, header_row, 1)

\* mutant: the cells are compared without strip()
RECURSIVE occurrences_nostrip_from(_, _, _)
occurrences_nostrip_from(label, header_row, p) ==
    IF p > Len(header_row) THEN <<>>
    ELSE (IF header_row[p] = label THEN <<p - 1>> ELSE <<>>)
         \o occurrences_nostrip_from(label, header_row, p + 1)

get_column_index_nostrip(label, index, header_row) ==
    LET occ == occurrences_nostrip_from(label, header_row, 1)
    IN  IF index < Len(occ) THEN occ[index + 1] + 1 ELSE None

get_column_index(label, index, header_row) ==
    LET occ == occurrences(label, header_row)
    IN  IF index < Len(occ) THEN occ[index + 1] + 1 ELSE None

-----------------------------------------------------------------------------
(* find_alternate_campaign_name_with_new_structure *)

\* Series.dropna()
dropna(s) == SelectSeq(s, LAMBDA c : c # NaN)

\* Series.unique(): first-seen order
RECURSIVE unique(_)
unique(s) ==
    IF s = <<>> THEN <<>>
    ELSE LET init == unique(SubSeq(s, 1, Len(s) - 1))
             last == s[Len(s)]
         IN  IF \E i \in 1..Len(init) : init[i] = last THEN init
             ELSE Append(init, last)

\* pd.DataFrame(settings_data): a list of rows; column 1 is 'Camp'.  An empty
\* list of records gives a frame without columns.
NumColumns(settings_df) == IF settings_df = <<>> THEN 0 ELSE Len(settings_df[1])

\* name in settings_df[col].values
InColumn(settings_df, col, name) ==
    \E r \in 1..Len(settings_df) : settings_df[r][col] = name

\* settings_df[settings_df[col] == name].index[0]
FirstRowIndex(settings_df, col, name) ==
    Min({r \in 1..Len(settings_df) : settings_df[r][col] = name})

\* the for loop over settings_df.columns[1:], from column col on
RECURSIVE scan_columns(_, _, _)
scan_columns(settings_df, campaign_name, col) ==
    IF col > NumColumns(settings_df) THEN <<>>
    ELSE IF InColumn(settings_df, col, campaign_name)
         THEN LET row_index == FirstRowIndex(settings_df, col, campaign_name)
                  alternate_names == unique(dropna(settings_df[row_index]))
              IN  SelectSeq(alternate_names, LAMBDA name : name # campaign_name)
         ELSE scan_columns(settings_df, campaign_name, col + 1)

\* mutant: the else branch slices the matched row from column 1 on, like the
\* first branch, and so loses the canonical name
RECURSIVE scan_columns_sliced(_, _, _)
scan_columns_sliced(settings_df, campaign_name, col) ==
    IF col > NumColumns(settings_df) THEN <<>>
    ELSE IF InColumn(settings_df, col, campaign_name)
         THEN LET row_index == FirstRowIndex(settings_df, col, campaign_name)
                  alternate_names == unique(dropna(Tail(settings_df[row_index])))
              IN  SelectSeq(alternate_names, LAMBDA name : name # campaign_name)
         ELSE scan_columns_sliced(settings_df, campaign_name, col + 1)

find_alternate_sliced(settings_df, campaign_name) ==
    IF NumColumns(settings_df) = 0
    THEN [raised |-> TRUE, value |-> <<>>]
    ELSE IF InColumn(settings_df, 1, campaign_name)
         THEN LET row_index == FirstRowIndex(settings_df, 1, campaign_name)
              IN  [raised |-> FALSE,
                   value |-> unique(dropna(Tail(settings_df[row_index])))]
         ELSE [raised |-> FALSE,
               value |-> scan_columns_sliced(settings_df, campaign_name, 2)]

\* The result is [raised, value]: settings_df['Camp'] raises KeyError on a
\* frame without columns, otherwise value is the returned list.
find_alternate_campaign_name_with_new_structure(settings_df, campaign_name) ==
    IF NumColumns(settings_df) = 0
    THEN [raised |-> TRUE, value |-> <<>>]
    ELSE IF InColumn(settings_df, 1, campaign_name)
         THEN LET row_index == FirstRowIndex(settings_df, 1, campaign_name)
              IN  [raised |-> FALSE,
                   value |-> unique(dropna(Tail(settings_df[row_index])))]
         ELSE [raised |-> FALSE,
               value |-> scan_columns(settings_df, campaign_name, 2)]

-----------------------------------------------------------------------------
(* Inputs *)

X == <<"X">>
Y == <<"Y">>
Z == <<"Z">>

\* update_columns of the two update types (main, lines 106 and 110)
update_columns(type) ==
    IF type = "CTC" THEN <<Calls, CTC, Abandoned, Connects>>
    ELSE <<LoggedCalls, DialTime>>

Range(s) == {s[i] : i \in 1..Len(s)}

AllLabels == Range(update_columns("CTC")) \cup Range(update_columns("Log type"))

\* all sequences over S of length at most n
RECURSIVE SeqsUpTo(_, _)
SeqsUpTo(S, n) ==
    IF n = 0 THEN {<<>>}
    ELSE LET shorter == SeqsUpTo(S, n - 1)
         IN  shorter \cup {Append(s, x) : s \in {t \in shorter : Len(t) = n - 1}, x \in S}

\* all sequences over S of length exactly n
SeqsOfLen(S, n) == {s \in SeqsUpTo(S, n) : Len(s) = n}

HeaderCells == {Blank, Calls, Pad(Calls), CTC, PadWide(CTC), DialTime}

\* the columns of the settings sheet: 'Camp' and two columns of alternates
SettingsColumns == <<"Camp", "Alt1", "Alt2">>

\* cells of the settings sheet; get_all_records gives '' for a blank cell
SettingsCells == {Blank, X, Y}
SettingsRows == SeqsOfLen(SettingsCells, Len(SettingsColumns))
AliasTables == SeqsUpTo(SettingsRows, MaxAliasRows)
CampaignNames == {X, Y, Z}

\* the value of the variables a specification does not use
Unused == <<>>

-----------------------------------------------------------------------------
(* Specification of get_column_index alone *)

InitColumn ==
    /\ call \in [label : AllLabels, index : 0..MaxIndex,
                 header_row : SeqsUpTo(HeaderCells, MaxHeaderLen)]
    /\ ret = None
    /\ credentials_json = Unused
    /\ pc = "call"
    /\ sheet = Unused /\ settings_data = Unused /\ summary = Unused
    /\ update_type = "CTC" /\ day_index = 0 /\ data = Unused
    /\ target_columns = Unused /\ idx = 1 /\ camp_row_index = None
    /\ step = 1 /\ events = <<>> /\ run = 1 /\ first = Unused

CallGetColumnIndex ==
    /\ pc = "call"
    /\ ret' = get_column_index(call.label, call.index, call.header_row)
    /\ pc' = "ret"
    /\ UNCHANGED <<sheet, settings_data, summary, update_type, day_index, data,
                   target_columns, idx, camp_row_index, step, events, run,
                   first, call, credentials_json>>

NextColumn == CallGetColumnIndex

SpecColumn == InitColumn /\ [][NextColumn]_vars

-----------------------------------------------------------------------------
(* Specification of find_alternate_campaign_name_with_new_structure alone *)

InitAlias ==
    /\ call \in [settings_df : AliasTables, campaign_name : CampaignNames]
    /\ ret = [raised |-> FALSE, value |-> <<>>]
    /\ credentials_json = Unused
    /\ pc = "call"
    /\ sheet = Unused /\ settings_data = Unused /\ summary = Unused
    /\ update_type = "CTC" /\ day_index = 0 /\ data = Unused
    /\ target_columns = Unused /\ idx = 1 /\ camp_row_index = None
    /\ step = 1 /\ events = <<>> /\ run = 1 /\ first = Unused

CallFindAlternate ==
    /\ pc = "call"
    /\ ret' = find_alternate_campaign_name_with_new_structure(
                  call.settings_df, call.campaign_name)
    /\ pc' = "ret"
    /\ UNCHANGED <<sheet, settings_data, summary, update_type, day_index, data,
                   target_columns, idx, camp_row_index, step, events, run,
                   first, call, credentials_json>>

NextAlias == CallFindAlternate

SpecAlias == InitAlias /\ [][NextAlias]_vars

-----------------------------------------------------------------------------
(* Column Resolver and Alias Resolver properties *)

\* the positions (1-based) of the header cells that equal the label once trimmed
MatchingPositions(label, header_row) ==
    {p \in 1..Len(header_row) : strip(header_row[p]) = label}

\* the 1-based position of the (i+1)-th matching cell, or None when there
\* are at most i of them
NthMatch(label, i, header_row) ==
    LET M == MatchingPositions(label, header_row)
    IN  IF i < Cardinality(M)
        THEN CHOOSE p \in M : Cardinality({q \in M : q < p}) = i
        ELSE None

\* C2: with k header cells equal to the label after trimming, get_column_index
\* returns the 1-based position of the (i+1)-th of them for 0 <= i < k and
\* not-found for i >= k.
C2_ResolveColumn ==
    pc = "ret" => ret = NthMatch(call.label, call.index, call.header_row)

C2_Witness ==
    /\ pc = "ret"
    /\ call.header_row = <<Calls, CTC, Calls, CTC>>
    /\ call.index = 1
    /\ call.label = CTC
    /\ ret = 4

\* a (non-blank) name, as opposed to the '' of an empty settings cell
IsName(c) == c # Blank

Contains(list, name) == \E i \in 1..Len(list) : list[i] = name

\* the pairs <<r, c>> with name A in column 'Camp' of row r and name B in a
\* later column c of the same row
AliasPairs(t, A, B) ==
    {rc \in (1..Len(t)) \X (2..NumColumns(t)) :
        t[rc[1]][1] = A /\ t[rc[1]][rc[2]] = B}

\* C3 (as claimed): whenever A is in column 0 and B in a later column of the
\* same row, resolving A gives a list with B and resolving B a list with A,
\* wherever else B occurs.
C3_SymmetricAlways ==
    pc = "ret" =>
      \A A \in CampaignNames, B \in CampaignNames :
        AliasPairs(call.settings_df, A, B) # {} =>
          /\ call.campaign_name = A => Contains(ret.value, B)
          /\ call.campaign_name = B => Contains(ret.value, A)

\* the row the resolver takes for a name: the first row with the name in
\* 'Camp', else the first row with it in the leftmost later column holding it
FirstRowWith(t, col, name) == Min({r \in 1..Len(t) : t[r][col] = name})

ColumnsWith(t, name) == {c \in 1..NumColumns(t) : \E r \in 1..Len(t) : t[r][c] = name}

\* C3 (amended): the pair is symmetric when its row is the one the scan
\* reaches first: resolving A contains B if the row is the first with A in
\* column 0; resolving B contains A if B is in no column-0 cell and the row is
\* the first with B in the leftmost column that holds B.
C3_SymmetricFirstMatch ==
    pc = "ret" =>
      \A A \in CampaignNames, B \in CampaignNames :
        \A rc \in AliasPairs(call.settings_df, A, B) :
          LET t == call.settings_df
              r == rc[1]
          IN  /\ (call.campaign_name = A /\ r = FirstRowWith(t, 1, A))
                    => Contains(ret.value, B)
              /\ (/\ call.campaign_name = B
                  /\ A # B
                  /\ 1 \notin ColumnsWith(t, B)
                  /\ r = FirstRowWith(t, Min(ColumnsWith(t, B)), B))
                    => Contains(ret.value, A)

\* resolving the alternate Y of <<X, '', Y>> gives the canonical X
C3_Witness ==
    /\ pc = "ret"
    /\ call.settings_df = << <<X, Blank, Y>> >>
    /\ call.campaign_name = Y
    /\ ret.value = <<X, Blank>>

\* C10: the returned alias list has no empty entry and no duplicate entry.
C10_NoEmptyNoDuplicate ==
    (pc = "ret" /\ ~ret.raised) =>
      /\ \A i \in 1..Len(ret.value) : ret.value[i] # Blank
      /\ \A i, j \in 1..Len(ret.value) : ret.value[i] = ret.value[j] => i = j

-----------------------------------------------------------------------------
(* main: the update orchestrator *)

Camp == <<"C","a","m","p">>

\* the selectbox of line 100 offers the days 1..5
NumDays == 5

\* mutant: the Connects and CTC values are written to each other's column
update_cells_swapped(type) ==
    IF type = "CTC"
    THEN << <<Calls, Calls>>, <<Connects, CTC>>, <<CTC, Connects>>,
            <<Abandoned, Abandoned>> >>
    ELSE << <<LoggedCalls, DialTime>>, <<DialTime, LoggedCalls>> >>

\* the update_cell calls of one campaign, in program order: the label whose
\* target column is written and the label of the summary field written there
update_cells(type) ==
    IF type = "CTC"
    THEN << <<Calls, Calls>>, <<Connects, Connects>>, <<CTC, CTC>>,
            <<Abandoned, Abandoned>> >>
    ELSE << <<LoggedCalls, LoggedCalls>>, <<DialTime, DialTime>> >>

\* st.error texts
InvalidDayIndex == <<"Invalid day index for one or more columns.">>
\* st.error(f"An error occurred: {e}") for the exception e
AnErrorOccurred(e) == <<"An error occurred: ", e>>

\* str(e) of the exceptions the try block can meet: a failing call to the
\* remote store, data[1] on a sheet of less than two rows, and
\* settings_df['Camp'] on a frame without columns
RemoteException == "APIError"
IndexErrorText == "list index out of range"
KeyErrorText == "'Camp'"

\* values of the environment variable GOOGLE_CREDENTIALS_JSON: not set
\* (os.getenv gives None), empty, not a JSON document, a service account key
NotSet == "None"
NotJson == "not json"
ServiceAccount == "{service account}"
Credentials == {NotSet, "", NotJson, ServiceAccount}

\* str(e) of the exceptions of get_google_sheet_client
CredentialsNotFound == "Credentials not found in environment variables"
JSONDecodeErrorText == "Expecting value: line 1 column 1 (char 0)"

\* json.loads on the values of Credentials: whether it raises, and str(e) of
\* the JSONDecodeError
json_loads(text) ==
    IF text = ServiceAccount
    THEN [raised |-> FALSE, error |-> ""]
    ELSE [raised |-> TRUE, error |-> JSONDecodeErrorText]

Message(kind, camp, text) ==
    [kind |-> kind, camp |-> camp, row |-> 0, col |-> 0, value |-> text]

UpdateCell(camp, row, col, value) ==
    [kind |-> "update_cell", camp |-> camp, row |-> row, col |-> col, value |-> value]

\* worksheet.update_cell(row, col, value) on the remote grid
update_cell(grid, row, col, value) ==
    IF row \in 1..Len(grid) /\ col \in 1..Len(grid[row])
    THEN [grid EXCEPT ![row][col] = value]
    ELSE grid

\* mutant: only the target_column_label of the update type is checked
none_in_target_label(tc) ==
    tc[IF update_type = "CTC" THEN CTC ELSE LoggedCalls] = None

\* None in target_columns.values()
none_in_values(tc) == \E l \in DOMAIN tc : tc[l] = None

\* the loop of lines 137-140 (and 146-149) from 0-based row j - 1 on: j + 1
\* of the first row whose trimmed first cell is the name, else None
RECURSIVE find_row_from(_, _, _)
find_row_from(grid, name, j) ==
    IF j > Len(grid) THEN None
    ELSE IF strip(grid[j][1]) = name THEN j
         ELSE find_row_from(grid, name, j + 1)

find_row(grid, name) == find_row_from(grid, name, 1)

\* the loop over alternate_names of lines 145-152, from names[i] on:
\* [row, alt_name] of the first alternate found in the grid
RECURSIVE match_alternates_from(_, _, _)
match_alternates_from(grid, names, i) ==
    IF i > Len(names) THEN [row |-> None, alt_name |-> Blank]
    ELSE LET r == find_row(grid, names[i])
         IN  IF r # None THEN [row |-> r, alt_name |-> names[i]]
             ELSE match_alternates_from(grid, names, i + 1)

\* mutant: the outer loop has no break, the last alternate found wins
RECURSIVE match_alternates_nobreak(_, _)
match_alternates_nobreak(grid, names) ==
    IF names = <<>> THEN [row |-> None, alt_name |-> Blank]
    ELSE LET r == find_row(grid, names[Len(names)])
         IN  IF r # None THEN [row |-> r, alt_name |-> names[Len(names)]]
             ELSE match_alternates_nobreak(grid, SubSeq(names, 1, Len(names) - 1))

match_alternates(grid, names) == match_alternates_from(grid, names, 1)

\* mutant: the loop is left after the warning
after_warning_break == [pc |-> "done", idx |-> idx]

\* after st.warning (line 167) the for loop goes on with the next summary row
after_warning == [pc |-> "rows", idx |-> idx + 1]

HasError(evs) == \E i \in 1..Len(evs) : evs[i].kind = "st.error"

\* lines 11-26: whether an exception is raised before any call to the
\* remote store, and its str(e)
get_google_sheet_client(credentials) ==
    IF credentials \in {NotSet, ""}
    THEN [raised |-> TRUE, error |-> CredentialsNotFound]
    ELSE json_loads(credentials)

\* line 115 raises inside get_google_sheet_client, before any remote call
ClientFails ==
    /\ pc = "start"
    /\ get_google_sheet_client(credentials_json).raised
    /\ events' = Append(events, Message("st.error", Blank,
                     AnErrorOccurred(get_google_sheet_client(credentials_json).error)))
    /\ pc' = "done"
    /\ UNCHANGED <<sheet, settings_data, summary, update_type, day_index, data,
                   target_columns, idx, camp_row_index, step, run, first,
                   call, ret, credentials_json>>

\* the client is built and a call to the remote store (lines 26, 115-121)
\* fails before the loop
ExecuteFails ==
    /\ pc = "start"
    /\ ~get_google_sheet_client(credentials_json).raised
    /\ events' = Append(events, Message("st.error", Blank, AnErrorOccurred(RemoteException)))
    /\ pc' = "done"
    /\ UNCHANGED <<sheet, settings_data, summary, update_type, day_index, data,
                   target_columns, idx, camp_row_index, step, run, first,
                   call, ret, credentials_json>>

\* lines 114-129: read both sheets, resolve the target columns
Execute ==
    /\ pc = "start"
    /\ ~get_google_sheet_client(credentials_json).raised
    /\ data' = sheet
    /\ IF Len(sheet) < 2
       THEN \* data[1] raises IndexError
            /\ events' = Append(events, Message("st.error", Blank, AnErrorOccurred(IndexErrorText)))
            /\ pc' = "done"
            /\ UNCHANGED target_columns
       ELSE LET tc == [l \in Range(update_columns(update_type)) |->
                          get_column_index(l, day_index, sheet[2])]
            IN  /\ target_columns' = tc
                /\ IF none_in_values(tc)
                   THEN /\ events' = Append(events,
                                        Message("st.error", Blank, InvalidDayIndex))
                        /\ pc' = "done"
                   ELSE /\ events' = events
                        /\ pc' = "rows"
    /\ UNCHANGED <<sheet, settings_data, summary, update_type, day_index,
                   idx, camp_row_index, step, run, first, call, ret, credentials_json>>

\* lines 130-152 and 166-167: find the destination row of the next campaign
ProcessRow ==
    /\ pc = "rows"
    /\ idx <= Len(summary)
    /\ LET camp_name == summary[idx][Camp]
           direct == find_row(data, camp_name)
           alternates == find_alternate_campaign_name_with_new_structure(
                             settings_data, camp_name)
           found == match_alternates(data, alternates.value)
       IN  IF direct # None
           THEN /\ camp_row_index' = direct
                /\ events' = events
                /\ pc' = "write"
                /\ UNCHANGED idx
           ELSE IF alternates.raised
           THEN \* line 136 has reset camp_row_index before the lookup raises
                /\ camp_row_index' = None
                /\ events' = Append(events,
                                Message("st.error", Blank, AnErrorOccurred(KeyErrorText)))
                /\ pc' = "done"
                /\ UNCHANGED idx
           ELSE IF found.row # None
           THEN /\ camp_row_index' = found.row
                /\ events' = Append(events,
                                Message("st.info", camp_name, found.alt_name))
                /\ pc' = "write"
                /\ UNCHANGED idx
           ELSE /\ camp_row_index' = None
                /\ events' = Append(events, Message("st.warning", camp_name, Blank))
                /\ idx' = after_warning.idx
                /\ pc' = after_warning.pc
    /\ step' = 1
    /\ UNCHANGED <<sheet, settings_data, summary, update_type, day_index, data,
                   target_columns, run, first, call, ret, credentials_json>>

\* lines 154-165: the next update_cell call of the current campaign succeeds
WriteCell ==
    /\ pc = "write"
    /\ LET row == summary[idx]
           c == update_cells(update_type)[step]
           col == target_columns[c[1]]
           w == UpdateCell(row[Camp], camp_row_index, col, row[c[2]])
       IN  /\ sheet' = update_cell(sheet, camp_row_index, col, row[c[2]])
           /\ IF step = Len(update_cells(update_type))
              THEN /\ events' = events \o <<w, Message("st.success", row[Camp], Blank)>>
                   /\ idx' = idx + 1
                   /\ pc' = "rows"
                   /\ step' = 1
              ELSE /\ events' = Append(events, w)
                   /\ step' = step + 1
                   /\ UNCHANGED <<idx, pc>>
    /\ UNCHANGED <<settings_data, summary, update_type, day_index, data,
                   target_columns, camp_row_index, run, first, call, ret, credentials_json>>

\* mutant: the exception is caught per campaign and the loop goes on
WriteCellFailsSwallowed ==
    /\ pc = "write"
    /\ events' = Append(events, Message("st.error", Blank, AnErrorOccurred(RemoteException)))
    /\ pc' = "rows"
    /\ idx' = idx + 1
    /\ UNCHANGED <<sheet, settings_data, summary, update_type, day_index, data,
                   target_columns, camp_row_index, step, run, first,
                   call, ret, credentials_json>>

\* the next update_cell call raises: the except clause reports it
WriteCellFails ==
    /\ pc = "write"
    /\ events' = Append(events, Message("st.error", Blank, AnErrorOccurred(RemoteException)))
    /\ pc' = "done"
    /\ UNCHANGED <<sheet, settings_data, summary, update_type, day_index, data,
                   target_columns, idx, camp_row_index, step, run, first,
                   call, ret, credentials_json>>

\* the for loop of line 130 is exhausted
Finish ==
    /\ pc = "rows"
    /\ idx > Len(summary)
    /\ pc' = "done"
    /\ UNCHANGED <<sheet, settings_data, summary, update_type, day_index, data,
                   target_columns, idx, camp_row_index, step, events, run,
                   first, call, ret, credentials_json>>

\* the user clicks Execute again with the same inputs: main runs from the top
Rerun ==
    /\ pc = "done"
    /\ run = 1
    /\ run' = 2
    /\ first' = events
    /\ events' = <<>>
    /\ pc' = "start"
    /\ data' = <<>>
    /\ target_columns' = Unused
    /\ idx' = 1
    /\ camp_row_index' = None
    /\ step' = 1
    /\ UNCHANGED <<sheet, settings_data, summary, update_type, day_index,
                   call, ret, credentials_json>>

-----------------------------------------------------------------------------
(* Inputs of main *)

\* One summary row per campaign, as the aggregators produce it: the metric
\* values are the strings the sheet shows for them.
CTCRow(camp, calls, connects, ctc, abandoned) ==
    (Camp :> camp) @@ (Calls :> calls) @@ (Connects :> connects)
    @@ (CTC :> ctc) @@ (Abandoned :> abandoned)

LogRow(camp, logged, dial) ==
    (Camp :> camp) @@ (LoggedCalls :> logged) @@ (DialTime :> dial)

SummaryRow(type, camp) ==
    IF type = "CTC"
    THEN CASE camp = X -> CTCRow(X, <<"3","0">>, <<"1","5">>, <<"5","5",".","5">>, <<"3">>)
           [] camp = Y -> CTCRow(Y, <<"7">>, <<"4">>, <<"1",".","7","5">>, <<"0">>)
           [] camp = Z -> CTCRow(Z, <<"1","2">>, <<"6">>, <<"2",".","5">>, <<"1">>)
    ELSE CASE camp = X -> LogRow(X, <<"2">>, <<"0","1",":","0","1",":","0","1">>)
           [] camp = Y -> LogRow(Y, <<"5">>, <<"2","5",":","0","0",":","0","0">>)
           [] camp = Z -> LogRow(Z, <<"1">>, <<"0","0",":","0","0",":","0","9">>)

\* groupby sorts the summary by campaign name
Rank(camp) == CASE camp = X -> 1 [] camp = Y -> 2 [] camp = Z -> 3

Summaries(type) ==
    {[i \in 1..Len(names) |-> SummaryRow(type, names[i])] :
        names \in {n \in SeqsUpTo(CampaignNames, MaxSummary) :
                      \A i \in 1..(Len(n) - 1) : Rank(n[i]) < Rank(n[i + 1])}}

\* the metric labels of one day, in sheet order
Block(type) ==
    IF type = "CTC" THEN <<Calls, Connects, CTC, Abandoned>>
    ELSE <<LoggedCalls, DialTime>>

PadAll(block) == [i \in 1..Len(block) |-> Pad(block[i])]

\* header rows: one day; two days, the second with padded labels; two days,
\* the second lacking one label.  The first cell is blank, a campaign name
\* or a metric label.
HeaderBodies(type) ==
    {Block(type), Block(type) \o PadAll(Block(type))}
    \cup {Block(type) \o [Block(type) EXCEPT ![i] = Blank] : i \in 1..Len(Block(type))}

Headers(type) ==
    {<<h0>> \o body : h0 \in {Blank, X, Block(type)[1]}, body \in HeaderBodies(type)}

Blanks(n) == [i \in 1..n |-> Blank]

\* a rectangular grid: title row, header row, one data row per key
Grid(title, header, keys) ==
    << <<title>> \o Blanks(Len(header) - 1), header >>
    \o [i \in 1..Len(keys) |-> <<keys[i]>> \o Blanks(Len(header) - 1)]

TitleCells == {Blank, X}
DataKeys == {X, Pad(Y)}

\* sheets that vary the header row (and sheets too short to have one)
HeaderSheets(type) ==
    {<<>>, << <<Blank>> >>}
    \cup {Grid(t, h, <<X, Pad(Y)>>) : t \in TitleCells, h \in Headers(type)}

\* sheets that vary the campaign column under a blank title cell and a header
\* with two full days
KeySheets(type) ==
    {Grid(Blank, <<Blank>> \o Block(type) \o PadAll(Block(type)), keys) :
        keys \in SeqsUpTo(DataKeys, MaxDataRows)}

\* settings sheets of at most one record over three columns
MainSettings == SeqsUpTo(SeqsOfLen({Blank, X, Y, Z}, Len(SettingsColumns)), 1)

InitMain ==
    /\ update_type \in {"CTC", "Log type"}
    /\ \/ /\ sheet \in HeaderSheets(update_type)
          /\ settings_data \in {<<>>, << <<Z, Y, X>> >>}
          /\ day_index \in 0..(NumDays - 1)
       \/ /\ sheet \in KeySheets(update_type)
          /\ settings_data \in MainSettings
          /\ day_index = 1
    /\ summary \in Summaries(update_type)
    /\ pc = "start"
    /\ data = <<>>
    /\ target_columns = Unused
    /\ idx = 1
    /\ camp_row_index = None
    /\ step = 1
    /\ events = <<>>
    /\ run = 1
    /\ first = Unused
    /\ call = Unused
    /\ ret = Unused
    /\ credentials_json \in Credentials

Next ==
    \/ ClientFails
    \/ ExecuteFails
    \/ Execute
    \/ ProcessRow
    \/ WriteCell
    \/ WriteCellFails
    \/ Finish

\* one run of main
Spec == InitMain /\ [][Next]_vars

NextTwice == Next \/ Rerun

\* two runs of main in succession on the same inputs
SpecTwice == InitMain /\ [][NextTwice]_vars

-----------------------------------------------------------------------------
(* Properties of main *)

Writes(evs) == SelectSeq(evs, LAMBDA e : e.kind = "update_cell")

EventsOf(evs, kind, camp) == SelectSeq(evs, LAMBDA e : e.kind = kind /\ e.camp = camp)

NumErrors(evs) == Len(SelectSeq(evs, LAMBDA e : e.kind = "st.error"))

RequiredLabels == Range(update_columns(update_type))

\* the snapshot was taken and has a header row
HeaderRead == Len(data) >= 2

\* the column of a label on the chosen day, from the snapshot's header
ResolvedColumn(label) == NthMatch(label, day_index, data[2])

\* C1: if a metric label required by the mode is not found for the chosen day,
\* the run ends with one error and no update_cell call, whatever the summary
\* rows and the sheet are.
C1_AbortBeforeWrites ==
    (pc # "start" /\ HeaderRead
       /\ \E l \in RequiredLabels : ResolvedColumn(l) = None)
    => /\ pc = "done"
       /\ Writes(events) = <<>>
       /\ NumErrors(events) = 1

\* one label is missing, the others resolve, and a campaign has a sheet row
C1_Witness ==
    /\ pc = "done"
    /\ HeaderRead
    /\ \E l \in RequiredLabels : ResolvedColumn(l) = None
    /\ \E l \in RequiredLabels : ResolvedColumn(l) # None
    /\ summary # <<>>
    /\ find_row(data, summary[1][Camp]) # None
    /\ NumErrors(events) = 1

\* the rows (1-based sheet rows) whose trimmed first cell is the name
RowsNamed(name) == {j \in 1..Len(data) : strip(data[j][1]) = name}

\* the data rows among them: 0-based rows >= 2
DataRowsNamed(name) == {j \in RowsNamed(name) : j >= 3}

AliasesOf(name) ==
    find_alternate_campaign_name_with_new_structure(settings_data, name).value

\* the positions of the aliases that match some row
MatchingAliases(name) ==
    {a \in 1..Len(AliasesOf(name)) : RowsNamed(AliasesOf(name)[a]) # {}}

\* the destination the ordering rule gives: the first row of the name,
\* else the first row of the first alias that has one, else None
Destination(name) ==
    IF RowsNamed(name) # {} THEN Min(RowsNamed(name))
    ELSE IF MatchingAliases(name) # {}
         THEN Min(RowsNamed(AliasesOf(name)[Min(MatchingAliases(name))]))
         ELSE None

AliasUsed(name) == EventsOf(events, "st.info", name) # <<>>

\* C5: a direct name match returns the first data row (0-based row >= 2)
\* whose trimmed first cell is the name, never the title or the header row.
C5_DirectMatchDataRowsOnly ==
    (pc = "write" /\ ~AliasUsed(summary[idx][Camp]))
    => /\ camp_row_index >= 3
       /\ camp_row_index = Min(DataRowsNamed(summary[idx][Camp]))

\* C6: aliases are consulted only if the name has no row; the destination is
\* then the first row of the first alias, in resolver order, that has a row;
\* a campaign is reported not found exactly when neither has a row.
C6_AliasFallbackOrder ==
    /\ pc = "write" =>
         LET name == summary[idx][Camp]
         IN  /\ camp_row_index = Destination(name)
             /\ camp_row_index # None
             /\ AliasUsed(name) <=> RowsNamed(name) = {}
             /\ AliasUsed(name) =>
                  EventsOf(events, "st.info", name)[1].value
                    = AliasesOf(name)[Min(MatchingAliases(name))]
    /\ \A i \in 1..Len(summary) :
         LET name == summary[i][Camp]
         IN  /\ EventsOf(events, "st.warning", name) # <<>>
                  => (HeaderRead /\ Destination(name) = None)
             /\ (i < idx /\ HeaderRead /\ Destination(name) = None)
                  => EventsOf(events, "st.warning", name) # <<>>

\* the name has no row, both of its aliases have one, the second alias's row
\* comes first in the sheet, and the first alias's row is taken
C6_Witness ==
    /\ pc = "write"
    /\ LET name == summary[idx][Camp]
           al == AliasesOf(name)
       IN  /\ RowsNamed(name) = {}
           /\ Len(al) = 2
           /\ RowsNamed(al[1]) # {} /\ RowsNamed(al[2]) # {}
           /\ Min(RowsNamed(al[2])) < Min(RowsNamed(al[1]))
           /\ camp_row_index = Min(RowsNamed(al[1]))

\* the events main produces for one summary row with a destination
RowEvents(row) ==
    LET name == row[Camp]
        r == Destination(name)
        cells == update_cells(update_type)
    IN  (IF RowsNamed(name) = {}
         THEN <<Message("st.info", name, AliasesOf(name)[Min(MatchingAliases(name))])>>
         ELSE <<>>)
        \o [k \in 1..Len(cells) |->
               UpdateCell(name, r, ResolvedColumn(cells[k][1]), row[cells[k][1]])]
        \o <<Message("st.success", name, Blank)>>

\* the events of a run over rows that all have a destination
RECURSIVE RunEvents(_)
RunEvents(rows) ==
    IF rows = <<>> THEN <<>>
    ELSE RowEvents(Head(rows)) \o RunEvents(Tail(rows))

HasDestination(row) == Destination(row[Camp]) # None

\* a call to the remote store failed in this run
RemoteCallFailed(evs) ==
    \E i \in 1..Len(evs) :
        evs[i].kind = "st.error" /\ evs[i].value = AnErrorOccurred(RemoteException)

\* every label of the mode has a column on the chosen day: the loop is entered
ColumnsResolved ==
    HeaderRead /\ \A l \in RequiredLabels : ResolvedColumn(l) # None

\* C7: a campaign without a row gets one warning and no write, and the run
\* is otherwise what it is for the summary without that campaign: in every
\* run that enters the loop and in which no remote call fails, the events
\* other than warnings are those of the run over the campaigns that have a row.
C7_NotFoundIsolated ==
    (pc = "done" /\ ColumnsResolved /\ ~RemoteCallFailed(events)) =>
      /\ SelectSeq(events, LAMBDA e : e.kind # "st.warning")
           = RunEvents(SelectSeq(summary, HasDestination))
      /\ \A i \in 1..Len(summary) :
           ~HasDestination(summary[i]) =>
             /\ Len(EventsOf(events, "st.warning", summary[i][Camp])) = 1
             /\ \A j \in 1..Len(events) :
                  events[j].camp = summary[i][Camp] => events[j].kind = "st.warning"

\* C7, in the runs that end without any exception: the isolation holds there,
\* so the KeyError of a settings sheet without records is the only breach.
C7_IsolatedWithoutException ==
    (pc = "done" /\ ~HasError(events) /\ HeaderRead) =>
      /\ SelectSeq(events, LAMBDA e : e.kind # "st.warning")
           = RunEvents(SelectSeq(summary, HasDestination))
      /\ \A i \in 1..Len(summary) :
           ~HasDestination(summary[i]) =>
             /\ Len(EventsOf(events, "st.warning", summary[i][Camp])) = 1
             /\ \A j \in 1..Len(events) :
                  events[j].camp = summary[i][Camp] => events[j].kind = "st.warning"

\* the first campaign has no row, a later one has and was written
C7_Witness ==
    /\ pc = "done"
    /\ ~HasError(events)
    /\ Len(summary) >= 2
    /\ ~HasDestination(summary[1])
    /\ HasDestination(summary[2])
    /\ EventsOf(events, "update_cell", summary[2][Camp]) # <<>>
    /\ EventsOf(events, "st.warning", summary[1][Camp]) # <<>>

\* C8: a failing remote call ends the run: the error is reported once, it is
\* the last event (no update_cell follows it), and every write issued before
\* it is in the remote sheet.
C8_TransportFailureFatal ==
    HasError(events) =>
      /\ pc = "done"
      /\ NumErrors(events) = 1
      /\ events[Len(events)].kind = "st.error"
      /\ \A i \in 1..Len(events) :
           (/\ events[i].kind = "update_cell"
            /\ \A j \in (i + 1)..Len(events) :
                 ~(/\ events[j].kind = "update_cell"
                   /\ events[j].row = events[i].row
                   /\ events[j].col = events[i].col))
           => sheet[events[i].row][events[i].col] = events[i].value

\* an update_cell call failed in the middle of a campaign, after earlier
\* writes, with a later campaign that has a row still to come
C8_Witness ==
    /\ HasError(events)
    /\ Writes(events) # <<>>
    /\ step > 1
    /\ idx < Len(summary)
    /\ HasDestination(summary[idx + 1])

\* the metric labels the mode writes
WrittenLabels == {update_cells(update_type)[k][1] : k \in 1..Len(update_cells(update_type))}

\* C9: a campaign with destination row r gets exactly one write per metric of
\* the mode, at row r, at the column of that metric's label, with that
\* metric's value; no other cell is written.
C9_WritesPerMetric ==
    HeaderRead =>
      LET dest == [i \in 1..Len(summary) |-> Destination(summary[i][Camp])]
          column == [l \in RequiredLabels |-> ResolvedColumn(l)]
      IN  /\ \A i \in 1..(idx - 1) :
               dest[i] # None =>
                 LET row == summary[i]
                     evs == EventsOf(events, "update_cell", row[Camp])
                 IN  /\ Len(evs) = Cardinality(RequiredLabels)
                     /\ \A l \in RequiredLabels :
                          Cardinality({k \in 1..Len(evs) :
                                /\ evs[k].row = dest[i]
                                /\ evs[k].col = column[l]
                                /\ evs[k].value = row[l]}) = 1
          /\ \A j \in 1..Len(events) :
               events[j].kind = "update_cell" =>
                 /\ \E i \in 1..Len(summary) : events[j].row = dest[i]
                 /\ \E l \in RequiredLabels : events[j].col = column[l]

\* a CTC run that wrote two campaigns
C9_Witness ==
    /\ pc = "done"
    /\ ~HasError(events)
    /\ update_type = "CTC"
    /\ Len(Writes(events)) = 8

\* C4: a second run on the same inputs, the sheet changed only by the first
\* run's writes, issues the same writes as the first.
C4_Idempotent ==
    (run = 2 /\ pc = "done" /\ ~HasError(first) /\ ~HasError(events))
    => Writes(events) = Writes(first)

=============================================================================
